---- MODULE Spec2Model ----
(***************************************************************************)
(* A model of pyocl: class Core (src/pyocl/core.py), which selects an      *)
(* OpenCL platform and device and creates a context, and class             *)
(* OpenCLSimBase (src/pyocl/sim.py), which owns a command queue and a      *)
(* compiled program.                                                       *)
(*                                                                         *)
(* The OpenCL binding (pyopencl, "cl") is the environment.  What it        *)
(* answers - the platform list, have_gl(), whether a Context, a            *)
(* CommandQueue or a build raises - is an input of the call that asks.     *)
(*                                                                         *)
(* Python values that may be None, or attributes not assigned yet, are     *)
(* sequences of length at most one: << >> is None, <<v>> is the value v.   *)
(*                                                                         *)
(* An exception is the field "raised" of a call's result: "none" when the  *)
(* call returned, otherwise the name of the exception that left it.        *)
(*                                                                         *)
(* core.py:16 writes  DISABLE_NON_FINITE_MATH = asuto()  inside the class  *)
(* body of OpenCLFlags.  The model describes the classes as their source   *)
(* defines them, method by method, and does not model loading the module.  *)
(***************************************************************************)
EXTENDS Integers, Sequences, FiniteSets, TLC

VARIABLES
    environ,    \* os.environ, the four keys the code writes
    arg,        \* the inputs of the most recent Core(...) call, << >> before the first
    core,       \* the Core instance that call worked on (self), << >> before the first
    raised,     \* what that call raised, "none" if it returned
    glAttempted,\* whether that call invoked the GL-sharing cl.Context (core.py:72)
    nctx,       \* number of cl.Context objects created so far (their identities)
    sim,        \* the OpenCLSimBase instance
    lastCall,   \* the most recent call on sim: its name, what it returned or raised
    history     \* what has happened to sim so far (observers, not program state)

vars == <<environ, arg, core, raised, glAttempted, nctx, sim, lastCall, history>>

coreVars == <<arg, core, raised, glAttempted>>
simVars == <<sim, lastCall, history>>

(***************************************************************************)
(* Bounds                                                                  *)
(***************************************************************************)
\* devices a platform enumerates, at most
MaxDevs == 2
\* cl.Context objects created in one behaviour, at most
MaxContexts == 2
\* kernels in a compiled program, at most
MaxKernels == 1

None == << >>
Some(v) == <<v>>

(***************************************************************************)
(* The environment: platforms and devices                                  *)
(***************************************************************************)
\* cl.device_type values the code asks for, and one it never asks for
GPU == "GPU"
CPU == "CPU"
ACCELERATOR == "ACCELERATOR"
DeviceTypes == {GPU, CPU, ACCELERATOR}

GLSharing == "cl_khr_gl_sharing"

SeqsUpTo(S, n) == UNION {[1..k -> S] : k \in 0..n}

\* A platform: its devices' types in enumeration order, and its extensions.
AllPlatforms == [devices : SeqsUpTo(DeviceTypes, MaxDevs),
                 extensions : SUBSET {GLSharing}]

\* A device: the platform that owns it and its place in the enumeration.
DevicesOf(P) == {[platform |-> P, index |-> i] : i \in 1..Len(P.devices)}
AllDevices == UNION {DevicesOf(P) : P \in AllPlatforms}
TypeOf(d) == d.platform.devices[d.index]

\* What cl.get_platforms() may return.  core.py:50 reads element 0 only.
PlatformLists == {<< >>} \cup {<<P>> : P \in AllPlatforms}

\* platform.get_devices(type): the devices of that type, in enumeration order
\* (an empty list when there is none)
get_devices(P, type) ==
    LET idx == SelectSeq([i \in 1..Len(P.devices) |-> i],
                         LAMBDA i : P.devices[i] = type)
    IN  [k \in 1..Len(idx) |-> [platform |-> P, index |-> idx[k]]]

(***************************************************************************)
(* os.environ and the process-wide toggles (core.py:85-101)                *)
(***************************************************************************)
OpenCLFlags == {"ENABLE_DEBUG", "ENABLE_COMPILER_OUTPUT", "ENABLE_CACHE",
                "DISABLE_NON_FINITE_MATH", "DISABLE_OPTIMISATIONS"}

Unset == "unset"

EnvironAtStart == [PYOPENCL_COMPILER_OUTPUT |-> Unset, PYOPENCL_NO_CACHE |-> Unset,
                   AMPLXE_LOG_LEVEL |-> Unset, TPSS_DEBUG |-> Unset]

enableCompilerCache(state, env) ==
    [env EXCEPT !.PYOPENCL_NO_CACHE = IF state = "ENABLE_CACHE" THEN "1" ELSE "1"]

enableCompilerOutput(state, env) ==
    [env EXCEPT !.PYOPENCL_COMPILER_OUTPUT =
                    IF state = "ENABLE_COMPILER_OUTPUT" THEN "" ELSE "1"]

(***************************************************************************)
(* class Core: properties and queries                                      *)
(***************************************************************************)
device(self) == self._device[1]
platform(self) == self._platform[1]

gpuDevices(self) == get_devices(platform(self), GPU)
cpuDevices(self) == get_devices(platform(self), CPU)

isUsingGPU(self) == TypeOf(device(self)) = GPU
isUsingCPU(self) == TypeOf(device(self)) = CPU
useGLInterop(self) == self._gl_interop
hasGLShareExtension(self) == GLSharing \in platform(self).extensions

\* A variant in which the name used at core.py:67 resolves to isUsingGPU.
isUsingGpu_resolvesToIsUsingGPU(self) ==
    [raised |-> "none", value |-> isUsingGPU(self)]

\* The call self.isUsingGpu() at core.py:67.  Python looks names up by their exact
\* spelling: class Core defines isUsingGPU (core.py:103) and nothing named
\* isUsingGpu, and __init__ assigns no such attribute, so the lookup raises
\* AttributeError and nothing is called.
isUsingGpu(self) ==
    [raised |-> "AttributeError", value |-> FALSE]

(***************************************************************************)
(* Core.__init__ (core.py:29-83)                                           *)
(***************************************************************************)
NoDevice == "RuntimeError: No OpenCL device currently available"

\* A variant that looks for a CPU before it looks for a GPU.
SelectDevice_cpuFirst(gpus, cpus, useGPU) ==
    IF Len(cpus) > 0 THEN [raised |-> "none", device |-> Some(cpus[1])]
    ELSE IF Len(gpus) > 0 /\ useGPU THEN [raised |-> "none", device |-> Some(gpus[1])]
    ELSE [raised |-> NoDevice, device |-> None]

\* A variant whose CPU test is off by one.
SelectDevice_cpuOffByOne(gpus, cpus, useGPU) ==
    IF Len(gpus) > 0 /\ useGPU THEN [raised |-> "none", device |-> Some(gpus[1])]
    ELSE IF Len(cpus) > 1 THEN [raised |-> "none", device |-> Some(cpus[1])]
    ELSE [raised |-> NoDevice, device |-> None]

\* core.py:57-65: the first GPU if there is one and useGPU, else the first CPU,
\* else RuntimeError.
SelectDevice(gpus, cpus, useGPU) ==
    IF Len(gpus) > 0 /\ useGPU THEN [raised |-> "none", device |-> Some(gpus[1])]
    ELSE IF Len(cpus) > 0 THEN [raised |-> "none", device |-> Some(cpus[1])]
    ELSE [raised |-> NoDevice, device |-> None]

\* What the GL-sharing cl.Context(properties=...) of core.py:72 may do: raise, or
\* return a context.  No devices are passed to it, so which devices of the
\* platform the context holds is the driver's choice: hasDevice says whether the
\* selected device is one of them.
GLOutcomes ==
    {[raises |-> TRUE, hasDevice |-> FALSE],
     [raises |-> FALSE, hasDevice |-> TRUE],
     [raises |-> FALSE, hasDevice |-> FALSE]}

\* A cl.Context object: its identity (the n-th context created), whether it was
\* created with GL sharing, its platform, and whether it holds the selected device.
Context(id, interop, P, hasDevice) ==
    [id |-> id, interop |-> interop, platform |-> P, hasDevice |-> hasDevice]

\* core.py:31-33
NewCore(useGPU) ==
    [_isUsingGPU |-> useGPU, _gl_interop |-> FALSE, _clDevice |-> None,
     _device |-> None, _platform |-> None, _context |-> None]

\* core.py:36-40: what __init__ writes to os.environ, before anything can raise
InitEnviron(env) ==
    [enableCompilerCache("ENABLE_CACHE",
                         enableCompilerOutput("ENABLE_COMPILER_OUTPUT", env))
       EXCEPT !.AMPLXE_LOG_LEVEL = "TRACE", !.TPSS_DEBUG = "1"]

\* core.py:42-65: the platform and the device.
ChooseDevice(self, dev, useGPU, plats) ==
    IF dev # None
    THEN [self |-> [self EXCEPT !._device = dev,
                                !._platform = Some(dev[1].platform)],
          raised |-> "none"]
    ELSE IF plats = << >>
    THEN [self |-> self, raised |-> "IndexError"]
    ELSE LET s1 == [self EXCEPT !._platform = Some(plats[1])]
             sel == SelectDevice(gpuDevices(s1), cpuDevices(s1), useGPU)
         IN  [self |-> [s1 EXCEPT !._device = sel.device], raised |-> sel.raised]

\* core.py:78-79 and 82-83: cl.Context(properties=[(PLATFORM, self.platform)],
\* devices=[self.device])
PlainContext(self, ctxRaises, n) ==
    IF ctxRaises
    THEN [self |-> self, raised |-> "cl.Error", nctx |-> n]
    ELSE [self |-> [self EXCEPT !._context =
                        Some(Context(n + 1, FALSE, platform(self), TRUE))],
          raised |-> "none", nctx |-> n + 1]

\* core.py:67-83: the context.  The three operands of "and" are evaluated left to
\* right; an operand that raises ends the constructor.
CreateContext(self, haveGL, gl, ctxRaises, n) ==
    LET g == isUsingGpu(self)
    IN  IF g.raised # "none"
        THEN [self |-> self, raised |-> g.raised, nctx |-> n, glAttempted |-> FALSE]
        ELSE IF g.value /\ haveGL /\ hasGLShareExtension(self)
        THEN IF gl.raises
             THEN LET r == PlainContext(self, ctxRaises, n)
                  IN  [self |-> r.self, raised |-> r.raised, nctx |-> r.nctx,
                       glAttempted |-> TRUE]
             ELSE [self |-> [self EXCEPT
                               !._context = Some(Context(n + 1, TRUE, platform(self),
                                                         gl.hasDevice)),
                               !._gl_interop = TRUE],
                   raised |-> "none", nctx |-> n + 1, glAttempted |-> TRUE]
        ELSE LET r == PlainContext(self, ctxRaises, n)
             IN  [self |-> r.self, raised |-> r.raised, nctx |-> r.nctx,
                  glAttempted |-> FALSE]

\* Core(dev, useGPU) in an environment where cl.get_platforms() returns plats,
\* cl.have_gl() returns haveGL, the GL-sharing Context does gl and the plain
\* Context raises iff ctxRaises; n contexts exist already.  The writes to
\* os.environ (InitEnviron) come first and are made whatever happens next.
Core__init__(dev, useGPU, plats, haveGL, gl, ctxRaises, n) ==
    LET chosen == ChooseDevice(NewCore(useGPU), dev, useGPU, plats)
        ctx == CreateContext(chosen.self, haveGL, gl, ctxRaises, n)
    IN  IF chosen.raised # "none"
        THEN [self |-> chosen.self, raised |-> chosen.raised, nctx |-> n,
              glAttempted |-> FALSE]
        ELSE ctx

\* The environments a call may meet, with the platform list one of lists.
EnvironmentsOver(lists) ==
    [plats : lists, haveGL : BOOLEAN, gl : GLOutcomes, ctxRaises : BOOLEAN]

Environments == EnvironmentsOver(PlatformLists)

\* Core() as sim.py:29 calls it (no device, useGPU=True): every result it can
\* have, over the environments, when n contexts exist already.
DefaultCoreResults ==
    {[n |-> n,
      result |-> Core__init__(None, TRUE, e.plats, e.haveGL, e.gl, e.ctxRaises, n)] :
        n \in 0..(MaxContexts - 1), e \in Environments}

(***************************************************************************)
(* Python values a call on OpenCLSimBase returns                           *)
(***************************************************************************)
PyValue(kind, i, b, t) == [kind |-> kind, int |-> i, bool |-> b, tuple |-> t]
PyNone == PyValue("None", 0, FALSE, << >>)
PyInt(i) == PyValue("int", i, FALSE, << >>)
PyBool(b) == PyValue("bool", 0, b, << >>)
PyTuple(t) == PyValue("tuple", 0, FALSE, t)
\* a bound method object, such as self.isDebugBuild without a call
PyMethod == PyValue("method", 0, FALSE, << >>)

\* Python's truth value of an object
Truthy(v) ==
    CASE v.kind = "None" -> FALSE
      [] v.kind = "int" -> v.int # 0
      [] v.kind = "bool" -> v.bool
      [] v.kind = "tuple" -> Len(v.tuple) > 0
      [] v.kind = "method" -> TRUE

Returned(op, v) == [op |-> op, raised |-> "none", ret |-> v]
Raised(op, e) == [op |-> op, raised |-> e, ret |-> PyNone]

(***************************************************************************)
(* class OpenCLSimBase (sim.py)                                            *)
(***************************************************************************)
\* values the callers assign
WorkGroupSizes == {<<64, 1>>, <<16, 16>>, <<8, 8>>}
DimValues == {1, 2, 3}
\* kernel sources a derived class supplies: one that compiles, one that does not
KernelSources == {"valid", "invalid"}
\* what kernel.get_work_group_info answers
WorkGroupInfoValues == {0, 256}

\* sim.py:15-22
NewSim ==
    [ocl |-> None, queue |-> None, program |-> None, kernel |-> None,
     _isDebugBuild |-> FALSE, _workGroupSize |-> <<64, 1>>, _dims |-> 2]

\* sim.py:50-56
setDebugBuild(s, state) == [s EXCEPT !._isDebugBuild = state]

\* sim.py:59-65, the method called
isDebugBuild(s) == PyBool(s._isDebugBuild)

\* sim.py:68-85
dimensions(s) == PyInt(s._dims)
dimensions_set(s, dims) == [s EXCEPT !._dims = dims]

\* A variant that answers for a program that was never built.
isKernelAvailable_ignoresProgram(s) ==
    PyInt(1)

\* sim.py:88-89: self.program and len(self.program.all_kernels())
isKernelAvailable(s) ==
    IF s.program = None THEN PyNone ELSE PyInt(s.program[1].kernels)

\* sim.py:92-99
workGroupSize(s) == PyTuple(s._workGroupSize)

\* A variant that stores the size in the wrong attribute.
workGroupSize_set_wrongField(s, wgSize) ==
    [s EXCEPT !._dims = Len(wgSize)]

\* sim.py:102-109
workGroupSize_set(s, wgSize) == [s EXCEPT !._workGroupSize = wgSize]

\* sim.py:119-123, 134-139, 149-153: the body the three queries share; info is
\* what get_work_group_info answers for the queried parameter.
WorkGroupInfoQuery(s, op, info) ==
    IF ~Truthy(isKernelAvailable(s))
    THEN Returned(op, PyInt(-1))
    ELSE IF s.program = None
    THEN Raised(op, "AttributeError")
    ELSE Returned(op, PyInt(info))

getLocalMemorySize(s, info) == WorkGroupInfoQuery(s, "getLocalMemorySize", info)
getRecommendedWorkGroupSizeMultiple(s, info) ==
    WorkGroupInfoQuery(s, "getRecommendedWorkGroupSizeMultiple", info)
getMaximumWorkGroupSize(s, info) ==
    WorkGroupInfoQuery(s, "getMaximumWorkGroupSize", info)

\* A variant that calls the method, as its name asks.
buildOptions_callsIsDebugBuild(s) ==
    IF Truthy(isDebugBuild(s)) THEN <<"-g">> ELSE << >>

\* sim.py:35-38.  Line 37 tests self.isDebugBuild, the bound method, and does not
\* call it.
buildOptions(s) ==
    IF Truthy(PyMethod) THEN <<"-g">> ELSE << >>

\* What cl.Program(context, kernel).build(options) may do: cl.Program raises for a
\* kernel of None, the build raises for a source that does not compile, and a
\* source that compiles gives a program with some number of kernels.
BuildOutcomes(kernel) ==
    IF kernel = None \/ kernel = Some("invalid")
    THEN {[raises |-> TRUE, kernels |-> 0]}
    ELSE {[raises |-> FALSE, kernels |-> k] : k \in 0..MaxKernels}

\* sim.py:32-40: what follows self.ocl = Core() once Core() has returned ocl.
\* qRaises: cl.CommandQueue raises; build: what the build does.
QueueAndBuild(s, ocl, qRaises, build) ==
    LET s1 == [s EXCEPT !.ocl = Some(ocl)]
        ctx == ocl._context[1]
        s2 == [s1 EXCEPT !.queue = Some([context |-> ctx])]
        opts == buildOptions(s2)
        s3 == [s2 EXCEPT !.program = Some([context |-> ctx, kernels |-> build.kernels,
                                           options |-> opts])]
    IN  IF qRaises THEN [sim |-> s1, raised |-> "cl.Error", options |-> None]
        ELSE IF s.kernel = None
        THEN [sim |-> s2, raised |-> "TypeError", options |-> None]
        ELSE IF build.raises
        THEN [sim |-> s2, raised |-> "cl.Error",
              options |-> Some([debug |-> s._isDebugBuild, passed |-> opts])]
        ELSE [sim |-> s3, raised |-> "none",
              options |-> Some([debug |-> s._isDebugBuild, passed |-> opts])]

\* sim.py:24-40.  r is the result of Core() at line 29; when it raised, nothing
\* is assigned.
initialiseCL(s, r, qRaises, build) ==
    IF r.raised # "none"
    THEN [sim |-> s, raised |-> r.raised, options |-> None]
    ELSE QueueAndBuild(s, r.self, qRaises, build)

(***************************************************************************)
(* The state machine                                                       *)
(***************************************************************************)
HistoryAtStart ==
    [inits |-> 0,                \* initialiseCL calls so far, counted up to 2
     fails |-> 0,                \* those that raised, counted up to 2
     built |-> FALSE,            \* whether a build has succeeded
     options |-> None,           \* the option list last handed to a build, and
                                 \* _isDebugBuild at that moment
     wgSize |-> <<64, 1>>]       \* the value last assigned to workGroupSize

UpTo2(n) == IF n < 2 THEN n + 1 ELSE n

Init ==
    /\ environ = EnvironAtStart
    /\ arg = None
    /\ core = None
    /\ raised = "none"
    /\ glAttempted = FALSE
    /\ nctx = 0
    /\ sim = NewSim
    /\ lastCall = Returned("__init__", PyNone)
    /\ history = HistoryAtStart

\* ---- class Core ----

\* A caller runs Core(dev, useGPU) in the environment e.  A behaviour follows one
\* Core instance: the constructor runs once.
Construct(dev, useGPU, e) ==
    LET r == Core__init__(dev, useGPU, e.plats, e.haveGL, e.gl, e.ctxRaises, nctx)
    IN  /\ arg = None
        /\ arg' = Some([device |-> dev, useGPU |-> useGPU, plats |-> e.plats,
                        haveGL |-> e.haveGL, gl |-> e.gl, ctxRaises |-> e.ctxRaises])
        /\ core' = Some(r.self)
        /\ raised' = r.raised
        /\ glAttempted' = r.glAttempted
        /\ environ' = InitEnviron(environ)
        /\ nctx' = r.nctx
        /\ UNCHANGED simVars

\* Core(useGPU=...) with no device: the first platform is enumerated.
ConstructDefault ==
    \E useGPU \in BOOLEAN, e \in Environments : Construct(None, useGPU, e)

\* Core(device, useGPU=...): the platform list is not read.
ConstructWithDevice ==
    \E d \in AllDevices, useGPU \in BOOLEAN, e \in EnvironmentsOver({<< >>}) :
        Construct(Some(d), useGPU, e)

\* The static methods, called directly.
EnableCompilerCache ==
    \E state \in OpenCLFlags :
        /\ environ' = enableCompilerCache(state, environ)
        /\ UNCHANGED <<coreVars, nctx, simVars>>

EnableCompilerOutput ==
    \E state \in OpenCLFlags :
        /\ environ' = enableCompilerOutput(state, environ)
        /\ UNCHANGED <<coreVars, nctx, simVars>>

\* ---- class OpenCLSimBase ----

\* What an initialiseCL call leaves behind: res is the result of initialiseCL.
InitialiseCLDone(res, n) ==
    /\ sim' = res.sim
    /\ lastCall' = IF res.raised = "none"
                   THEN Returned("initialiseCL", PyNone)
                   ELSE Raised("initialiseCL", res.raised)
    /\ history' = [history EXCEPT
                     !.inits = UpTo2(@),
                     !.fails = IF res.raised = "none" THEN @ ELSE UpTo2(@),
                     !.built = @ \/ res.raised = "none",
                     !.options = IF res.options = None THEN @ ELSE res.options]
    /\ environ' = InitEnviron(environ)
    /\ nctx' = n
    /\ UNCHANGED coreVars

InitialiseCL ==
    /\ nctx < MaxContexts
    /\ \E c \in DefaultCoreResults :
         /\ c.n = nctx
         /\ IF c.result.raised # "none"
            THEN InitialiseCLDone(initialiseCL(sim, c.result, FALSE,
                                               [raises |-> TRUE, kernels |-> 0]),
                                  c.result.nctx)
            ELSE \E qRaises \in BOOLEAN, build \in BuildOutcomes(sim.kernel) :
                    InitialiseCLDone(initialiseCL(sim, c.result, qRaises, build),
                                     c.result.nctx)

\* A call that only reads: v is what it returns.
Query(call) ==
    /\ lastCall' = call
    /\ UNCHANGED <<environ, coreVars, nctx, sim, history>>

\* A call that assigns: s is the object after it.
Assign(op, s) ==
    /\ sim' = s
    /\ lastCall' = Returned(op, PyNone)
    /\ UNCHANGED <<environ, coreVars, nctx>>

SetDebugBuild ==
    \E state \in BOOLEAN :
        Assign("setDebugBuild", setDebugBuild(sim, state)) /\ UNCHANGED history

IsDebugBuild == Query(Returned("isDebugBuild", isDebugBuild(sim)))

GetDimensions == Query(Returned("dimensions", dimensions(sim)))

SetDimensions ==
    \E dims \in DimValues :
        Assign("dimensions.setter", dimensions_set(sim, dims)) /\ UNCHANGED history

IsKernelAvailable == Query(Returned("isKernelAvailable", isKernelAvailable(sim)))

GetWorkGroupSize == Query(Returned("workGroupSize", workGroupSize(sim)))

SetWorkGroupSize ==
    \E wgSize \in WorkGroupSizes :
        /\ Assign("workGroupSize.setter", workGroupSize_set(sim, wgSize))
        /\ history' = [history EXCEPT !.wgSize = wgSize]

GetLocalMemorySize ==
    \E info \in WorkGroupInfoValues : Query(getLocalMemorySize(sim, info))

GetRecommendedWorkGroupSizeMultiple ==
    \E info \in WorkGroupInfoValues :
        Query(getRecommendedWorkGroupSizeMultiple(sim, info))

GetMaximumWorkGroupSize ==
    \E info \in WorkGroupInfoValues : Query(getMaximumWorkGroupSize(sim, info))

\* A derived class, or a caller, supplies the kernel source (sim.py:11-12, 19).
AssignKernel ==
    \E k \in KernelSources :
        Assign("kernel", [sim EXCEPT !.kernel = Some(k)]) /\ UNCHANGED history

\* sim.py:35-38 on their own: the option list the object as it stands would hand
\* to the build.
BuildOptionsStep ==
    /\ history' = [history EXCEPT
                     !.options = Some([debug |-> sim._isDebugBuild,
                                       passed |-> buildOptions(sim)])]
    /\ UNCHANGED <<environ, coreVars, nctx, sim, lastCall>>

NextCore ==
    \/ ConstructDefault
    \/ ConstructWithDevice
    \/ EnableCompilerCache
    \/ EnableCompilerOutput

NextSim ==
    \/ InitialiseCL
    \/ SetDebugBuild
    \/ IsDebugBuild
    \/ GetDimensions
    \/ SetDimensions
    \/ IsKernelAvailable
    \/ GetWorkGroupSize
    \/ SetWorkGroupSize
    \/ GetLocalMemorySize
    \/ GetRecommendedWorkGroupSizeMultiple
    \/ GetMaximumWorkGroupSize
    \/ AssignKernel

\* Callers of class Core.
Spec == Init /\ [][NextCore]_vars

\* Callers of one OpenCLSimBase instance.
SpecSim == Init /\ [][NextSim]_vars

\* SpecSim, and the option list of sim.py:35-38 evaluated on its own.
SpecBuildOptions == Init /\ [][NextSim \/ BuildOptionsStep]_vars

(***************************************************************************)
(* Properties of Core.__init__, checked under Spec                         *)
(***************************************************************************)
Called == arg # None
\* the constructor was called with no device and found a first platform
DefaultCall == Called /\ arg[1].device = None /\ arg[1].plats # << >>
FirstPlatform == arg[1].plats[1]

HasType(P, type) == \E d \in DevicesOf(P) : TypeOf(d) = type
\* the device of that type that the platform enumerates first
FirstOfType(P, type) ==
    CHOOSE d \in DevicesOf(P) :
        /\ TypeOf(d) = type
        /\ \A e \in DevicesOf(P) : TypeOf(e) = type => d.index <= e.index

\* C1: with no explicit device, useGPU=True and at least one GPU on the first
\* platform, the constructor assigns the first GPU in enumeration order to
\* _device - never a CPU, however many CPUs the platform has and wherever they
\* are enumerated.
C1_FirstGPUSelected ==
    (DefaultCall /\ arg[1].useGPU /\ HasType(FirstPlatform, GPU))
        => /\ core[1]._device = Some(FirstOfType(FirstPlatform, GPU))
           /\ isUsingGPU(core[1])
           /\ raised # NoDevice

\* a platform that enumerates a CPU before its GPU, and the GPU was taken
C1_Witness ==
    /\ DefaultCall /\ arg[1].useGPU
    /\ Len(FirstPlatform.devices) = 2
    /\ FirstPlatform.devices[1] = CPU /\ FirstPlatform.devices[2] = GPU
    /\ core[1]._device = Some([platform |-> FirstPlatform, index |-> 2])

\* C2: with no explicit device, useGPU=True, no GPU and at least one CPU on the
\* first platform (and a cl.Context that does not fail), the constructor returns
\* without raising, with _device the first CPU and a context created for it.
C2_CPUFallbackCompletes ==
    (DefaultCall /\ arg[1].useGPU /\ ~HasType(FirstPlatform, GPU)
       /\ HasType(FirstPlatform, CPU) /\ ~arg[1].ctxRaises)
        => /\ raised = "none"
           /\ core[1]._device = Some(FirstOfType(FirstPlatform, CPU))
           /\ core[1]._context # None
           /\ core[1]._context[1].hasDevice

\* C3, as claimed: with no explicit device, (a) a first platform with no device at
\* all makes the constructor raise the no-device error, (b) whenever it raises
\* that error the platform has neither a GPU nor a CPU, and (c) no context has
\* been created when it is raised.
C3_NoDeviceOnlyWithoutGPUAndCPU ==
    /\ (DefaultCall /\ Len(FirstPlatform.devices) = 0) => raised = NoDevice
    /\ (Called /\ raised = NoDevice)
          => /\ DefaultCall
             /\ ~HasType(FirstPlatform, GPU) /\ ~HasType(FirstPlatform, CPU)
             /\ core[1]._context = None /\ nctx = 0

\* C3, amended: (b) whenever the constructor raises the no-device error the
\* platform has no CPU, and it has no GPU or useGPU is False.
C3_NoDeviceOnlyWithoutUsableDevice ==
    /\ (DefaultCall /\ Len(FirstPlatform.devices) = 0) => raised = NoDevice
    /\ (Called /\ raised = NoDevice)
          => /\ DefaultCall
             /\ ~HasType(FirstPlatform, CPU)
             /\ (~HasType(FirstPlatform, GPU) \/ ~arg[1].useGPU)
             /\ core[1]._context = None /\ nctx = 0

\* the no-device error on a platform that has a GPU, with useGPU=False
C3_Witness ==
    /\ DefaultCall /\ raised = NoDevice
    /\ ~arg[1].useGPU /\ HasType(FirstPlatform, GPU)

\* C4: when the GL-sharing context creation raises (the caller asked for the GPU,
\* a GPU is selected, have_gl() holds, the platform has cl_khr_gl_sharing, and the
\* plain cl.Context works), the constructor still returns, useGLInterop() is False
\* and the context is a plain one for the selected device; and whenever the
\* constructor returns, its context holds the selected device.
C4_InteropFailureFallsBack ==
    /\ (Called /\ core[1]._device # None /\ arg[1].useGPU /\ isUsingGPU(core[1])
          /\ arg[1].haveGL /\ hasGLShareExtension(core[1])
          /\ arg[1].gl.raises /\ ~arg[1].ctxRaises)
        => /\ raised = "none"
           /\ ~useGLInterop(core[1])
           /\ core[1]._context # None
           /\ ~core[1]._context[1].interop
           /\ core[1]._context[1].hasDevice
    /\ (Called /\ raised = "none")
        => (core[1]._context # None /\ core[1]._context[1].hasDevice)

C6_DebugFlagIffRequested ==
    history.options # None
        => history.options[1].passed =
              IF history.options[1].debug THEN <<"-g">> ELSE << >>

WorkGroupQueries ==
    {"getLocalMemorySize", "getRecommendedWorkGroupSizeMultiple",
     "getMaximumWorkGroupSize"}

\* C7: while no build has succeeded, each of the three work-group queries returns
\* -1, does not raise, and changes nothing.
C7_QueriesReturnSentinel ==
    [][(lastCall'.op \in WorkGroupQueries /\ ~history'.built)
          => /\ lastCall'.raised = "none"
             /\ lastCall'.ret = PyInt(-1)
             /\ sim' = sim /\ history' = history
             /\ environ' = environ /\ nctx' = nctx]_vars

\* a query answered -1 after an initialiseCL call that raised
C7_Witness ==
    /\ lastCall.op \in WorkGroupQueries /\ lastCall.ret = PyInt(-1)
    /\ history.fails > 0 /\ ~history.built

Ready(s) == Truthy(isKernelAvailable(s))
SimState(s, h) ==
    IF Ready(s) THEN "Ready"
    ELSE IF h.fails > 0 THEN "BuildFailed"
    ELSE "Uncompiled"

C10_WorkGroupSizeRoundTrip ==
    [][/\ sim'._workGroupSize = history'.wgSize
       /\ lastCall'.op = "workGroupSize" => lastCall'.ret = PyTuple(history'.wgSize)
       /\ lastCall'.op = "workGroupSize.setter"
            => /\ sim' = [sim EXCEPT !._workGroupSize = history'.wgSize]
               /\ environ' = environ /\ nctx' = nctx]_vars

\* (16, 16) read back after setDebugBuild, a dimensions assignment and initialiseCL
C10_Witness ==
    /\ lastCall.op = "workGroupSize" /\ lastCall.ret = PyTuple(<<16, 16>>)
    /\ history.wgSize = <<16, 16>> /\ history.inits > 0
    /\ sim._isDebugBuild /\ sim._dims = 3

(***************************************************************************)
(* Properties of the process-wide toggles, checked under Spec              *)
(***************************************************************************)
\* What pyopencl makes of the two keys: it skips its build cache when
\* PYOPENCL_NO_CACHE is '1', and shows compiler output when
\* PYOPENCL_COMPILER_OUTPUT is '1'.
CachingEnabled(env) == env.PYOPENCL_NO_CACHE # "1"
CompilerOutputEnabled(env) == env.PYOPENCL_COMPILER_OUTPUT = "1"

\* a step that is the call enableCompilerCache(state) / enableCompilerOutput(state)
CacheCall(state) ==
    arg' = arg /\ environ' = enableCompilerCache(state, environ)
OutputCall(state) ==
    arg' = arg /\ environ' = enableCompilerOutput(state, environ)

\* C11: each toggle reflects its argument.  After enableCompilerCache(state),
\* caching is enabled (PYOPENCL_NO_CACHE is not '1') exactly when state is
\* ENABLE_CACHE; after enableCompilerOutput(state), compiler output is enabled
\* (PYOPENCL_COMPILER_OUTPUT is '1') exactly when state is
\* ENABLE_COMPILER_OUTPUT; and a step that constructs a Core, which calls both
\* with their enabling flags, leaves caching and compiler output both enabled.
C11_TogglesReflectArgument ==
    [][/\ \A state \in OpenCLFlags :
            /\ CacheCall(state)
                 => (CachingEnabled(environ') <=> state = "ENABLE_CACHE")
            /\ OutputCall(state)
                 => (CompilerOutputEnabled(environ')
                        <=> state = "ENABLE_COMPILER_OUTPUT")
       /\ arg' # arg
            => CachingEnabled(environ') /\ CompilerOutputEnabled(environ')]_vars

====
